---------------------------- MODULE Spec2Model ----------------------------
(***************************************************************************)
(* Model of src/app.py: the POST /api/analyze handler (analyze_meeting)    *)
(* and the response normalizer (extract_json_from_response).               *)
(*                                                                         *)
(* Text is a sequence of one-character strings, so that Python's str       *)
(* operations (strip, startswith, split, count, slicing) and json.loads    *)
(* are modelled by what they do on characters.  A JSON / Python value is a *)
(* tagged record [t |-> tag, v |-> payload]; a dict is the sequence of its *)
(* key/value pairs in insertion order.                                     *)
(***************************************************************************)
EXTENDS Integers, Sequences, FiniteSets, TLC

(***************************************************************************)
(* Python values                                                           *)
(***************************************************************************)
JStr(s)   == [t |-> "str",  v |-> s]
JNum(n)   == [t |-> "num",  v |-> n]
JBool(b)  == [t |-> "bool", v |-> b]
JNull     == [t |-> "null", v |-> 0]
JList(xs) == [t |-> "list", v |-> xs]
JObj(kvs) == [t |-> "obj",  v |-> kvs]

Pair(key, val) == [k |-> key, v |-> val]

MinOf(S) == CHOOSE x \in S : \A y \in S : x <= y
MaxOf(S) == CHOOSE x \in S : \A y \in S : y <= x

\* s[i], or "" past either end of s.
At(s, i) == IF i \in 1..Len(s) THEN s[i] ELSE ""

\* The Python slice s[i-1:j] (1-based, inclusive): clamped to s, empty when
\* nothing is left.
Slice(s, i, j) ==
    LET lo == IF i < 1 THEN 1 ELSE i
        hi == IF j > Len(s) THEN Len(s) ELSE j
    IN  IF hi < lo THEN <<>> ELSE SubSeq(s, lo, hi)

RECURSIVE Flatten(_)
Flatten(ss) == IF ss = <<>> THEN <<>> ELSE Head(ss) \o Flatten(Tail(ss))

(***************************************************************************)
(* Python str methods                                                      *)
(***************************************************************************)
\* The whitespace str.strip() removes, among the characters of the model.
PyWhitespace == {" ", "\n", "\t", "\r"}

RECURSIVE first_non_ws(_, _)
first_non_ws(s, i) ==
    IF i <= Len(s) /\ s[i] \in PyWhitespace THEN first_non_ws(s, i + 1) ELSE i

RECURSIVE last_non_ws(_, _)
last_non_ws(s, j) ==
    IF j >= 1 /\ s[j] \in PyWhitespace THEN last_non_ws(s, j - 1) ELSE j

\* str.strip()
py_strip(s) == Slice(s, first_non_ws(s, 1), last_non_ws(s, Len(s)))

\* str.startswith(prefix)
py_startswith(s, prefix) ==
    Len(s) >= Len(prefix) /\ SubSeq(s, 1, Len(prefix)) = prefix

\* The start positions of sep in s.
Occurrences(s, sep) ==
    {i \in 1..(Len(s) - Len(sep) + 1) : SubSeq(s, i, i + Len(sep) - 1) = sep}

\* str.split(sep): left to right, non-overlapping.
RECURSIVE py_split(_, _)
py_split(s, sep) ==
    LET hits == Occurrences(s, sep) IN
    IF hits = {} THEN <<s>>
    ELSE LET i == MinOf(hits) IN
         <<Slice(s, 1, i - 1)>> \o py_split(Slice(s, i + Len(sep), Len(s)), sep)

\* str.count(sep): the number of non-overlapping occurrences, left to right.
RECURSIVE py_count(_, _)
py_count(s, sep) ==
    LET hits == Occurrences(s, sep) IN
    IF hits = {} THEN 0
    ELSE 1 + py_count(Slice(s, MinOf(hits) + Len(sep), Len(s)), sep)

\* sep.join(parts)
RECURSIVE py_join(_, _)
py_join(sep, parts) ==
    IF parts = <<>> THEN <<>>
    ELSE IF Len(parts) = 1 THEN parts[1]
    ELSE parts[1] \o sep \o py_join(sep, Tail(parts))

DigitChars == <<"0", "1", "2", "3", "4", "5", "6", "7", "8", "9">>
IsDigit(c) == \E d \in 1..10 : DigitChars[d] = c
DigitVal(c) == (CHOOSE d \in 1..10 : DigitChars[d] = c) - 1

RECURSIVE NatToChars(_)
NatToChars(n) ==
    IF n < 10 THEN <<DigitChars[n + 1]>>
    ELSE NatToChars(n \div 10) \o <<DigitChars[(n % 10) + 1]>>

IntToChars(n) == IF n < 0 THEN <<"-">> \o NatToChars(0 - n) ELSE NatToChars(n)

\* repr() / str() of the values json.loads can return.  A parsed string never
\* holds a quote, a backslash or a control character here (the parser below
\* rejects control characters and the inputs carry no backslash), so repr
\* of a str is the text between single quotes.
RECURSIVE py_repr(_)
py_repr(x) ==
    CASE x.t = "str"  -> <<"'">> \o x.v \o <<"'">>
      [] x.t = "num"  -> IntToChars(x.v)
      [] x.t = "bool" -> IF x.v THEN <<"T","r","u","e">> ELSE <<"F","a","l","s","e">>
      [] x.t = "null" -> <<"N","o","n","e">>
      [] x.t = "list" ->
            <<"[">> \o py_join(<<",", " ">>, [i \in 1..Len(x.v) |-> py_repr(x.v[i])])
                    \o <<"]">>
      [] x.t = "obj"  ->
            <<"{">> \o py_join(<<",", " ">>,
                          [i \in 1..Len(x.v) |->
                              py_repr(JStr(x.v[i].k)) \o <<":", " ">> \o py_repr(x.v[i].v)])
                    \o <<"}">>

\* str(x)
py_str(x) == IF x.t = "str" THEN x.v ELSE py_repr(x)

\* bool(x): the truth value an `if` tests.
py_truthy(x) ==
    CASE x.t = "str"  -> x.v # <<>>
      [] x.t = "num"  -> x.v # 0
      [] x.t = "bool" -> x.v
      [] x.t = "null" -> FALSE
      [] x.t = "list" -> x.v # <<>>
      [] x.t = "obj"  -> x.v # <<>>

\* key in d
dict_has(kvs, key) == \E i \in 1..Len(kvs) : kvs[i].k = key

\* d[key]
dict_get(kvs, key) == kvs[CHOOSE i \in 1..Len(kvs) : kvs[i].k = key].v

\* d[key] = val: an existing key keeps its place, a new key goes last.
dict_set(kvs, key, val) ==
    IF dict_has(kvs, key)
    THEN [i \in 1..Len(kvs) |-> IF kvs[i].k = key THEN Pair(key, val) ELSE kvs[i]]
    ELSE Append(kvs, Pair(key, val))

(***************************************************************************)
(* json.loads                                                              *)
(***************************************************************************)
JsonWs == {" ", "\n", "\t", "\r"}
ControlChars == {"\n", "\t", "\r"}

ParseFail == [ok |-> FALSE, val |-> JNull, next |-> 0]
ParseOk(val, next) == [ok |-> TRUE, val |-> val, next |-> next]

RECURSIVE skip_ws(_, _)
skip_ws(s, i) == IF At(s, i) \in JsonWs THEN skip_ws(s, i + 1) ELSE i

\* The first position >= i of s holding c, or 0.
RECURSIVE find_char(_, _, _)
find_char(s, c, i) ==
    IF i > Len(s) THEN 0 ELSE IF s[i] = c THEN i ELSE find_char(s, c, i + 1)

\* A string literal opening at s[i] = '"'.  The inputs carry no backslash,
\* so it ends at the next quote; strict mode rejects control characters.
parse_string(s, i) ==
    LET j == find_char(s, "\"", i + 1) IN
    IF j = 0 THEN ParseFail
    ELSE IF \E m \in (i + 1)..(j - 1) : s[m] \in ControlChars THEN ParseFail
    ELSE ParseOk(JStr(Slice(s, i + 1, j - 1)), j + 1)

RECURSIVE digits_end(_, _)
digits_end(s, i) == IF IsDigit(At(s, i)) THEN digits_end(s, i + 1) ELSE i

RECURSIVE digits_value(_, _, _)
digits_value(s, i, j) ==
    IF j < i THEN 0 ELSE 10 * digits_value(s, i, j - 1) + DigitVal(s[j])

\* -?(0|[1-9][0-9]*) at s[i].  The inputs never put '.', 'e' or 'E' after a
\* digit, so every number is an int.
parse_number(s, i) ==
    LET neg   == At(s, i) = "-"
        start == IF neg THEN i + 1 ELSE i
        end   == IF At(s, start) = "0" THEN start + 1 ELSE digits_end(s, start)
        n     == digits_value(s, start, end - 1)
    IN  IF end = start THEN ParseFail
        ELSE ParseOk(JNum(IF neg THEN 0 - n ELSE n), end)

RECURSIVE parse_value(_, _)
RECURSIVE parse_elements(_, _, _)
RECURSIVE parse_members(_, _, _)

\* The elements of an array, the next one starting at s[i].
parse_elements(s, i, acc) ==
    LET e == parse_value(s, i) IN
    IF ~e.ok THEN ParseFail
    ELSE LET j == skip_ws(s, e.next) IN
         IF At(s, j) = "]" THEN ParseOk(JList(Append(acc, e.val)), j + 1)
         ELSE IF At(s, j) = "," THEN parse_elements(s, skip_ws(s, j + 1), Append(acc, e.val))
         ELSE ParseFail

\* The members of an object, the next key's quote expected at s[i].
parse_members(s, i, acc) ==
    IF At(s, i) # "\"" THEN ParseFail
    ELSE LET key == parse_string(s, i) IN
         IF ~key.ok THEN ParseFail
         ELSE LET c == skip_ws(s, key.next) IN
              IF At(s, c) # ":" THEN ParseFail
              ELSE LET val == parse_value(s, skip_ws(s, c + 1)) IN
                   IF ~val.ok THEN ParseFail
                   ELSE LET j    == skip_ws(s, val.next)
                            acc2 == dict_set(acc, key.val.v, val.val)
                        IN  IF At(s, j) = "}" THEN ParseOk(JObj(acc2), j + 1)
                            ELSE IF At(s, j) = ","
                                 THEN parse_members(s, skip_ws(s, j + 1), acc2)
                            ELSE ParseFail

parse_value(s, i) ==
    LET c == At(s, i) IN
    CASE c = "\"" -> parse_string(s, i)
      [] c = "{"  -> LET j == skip_ws(s, i + 1) IN
                     IF At(s, j) = "}" THEN ParseOk(JObj(<<>>), j + 1)
                     ELSE parse_members(s, j, <<>>)
      [] c = "["  -> LET j == skip_ws(s, i + 1) IN
                     IF At(s, j) = "]" THEN ParseOk(JList(<<>>), j + 1)
                     ELSE parse_elements(s, j, <<>>)
      [] c = "-" \/ IsDigit(c) -> parse_number(s, i)
      [] Slice(s, i, i + 3) = <<"t","r","u","e">> -> ParseOk(JBool(TRUE), i + 4)
      [] Slice(s, i, i + 4) = <<"f","a","l","s","e">> -> ParseOk(JBool(FALSE), i + 5)
      [] Slice(s, i, i + 3) = <<"n","u","l","l">> -> ParseOk(JNull, i + 4)
      [] OTHER -> ParseFail

\* json.loads(s): one value, whitespace around it, nothing else; ok = FALSE
\* stands for json.JSONDecodeError.
json_loads(s) ==
    LET r == parse_value(s, skip_ws(s, 1)) IN
    IF r.ok /\ skip_ws(s, r.next) = Len(s) + 1 THEN r ELSE ParseFail


(***************************************************************************)
(* extract_json_from_response                                              *)
(***************************************************************************)
meeting_summary   == <<"m","e","e","t","i","n","g","_","s","u","m","m","a","r","y">>
participants      == <<"p","a","r","t","i","c","i","p","a","n","t","s">>
key_decisions     == <<"k","e","y","_","d","e","c","i","s","i","o","n","s">>
action_items      == <<"a","c","t","i","o","n","_","i","t","e","m","s">>
discussion_points == <<"d","i","s","c","u","s","s","i","o","n","_","p","o","i","n","t","s">>

required_keys == <<meeting_summary, participants, key_decisions, action_items, discussion_points>>
list_keys     == <<key_decisions, action_items, discussion_points>>

\* The grave accent (ASCII 96), which a TLA+ string cannot hold: one element
\* of a text, like any other character.
Backtick == "GRAVE"
\* The code block marker: three grave accents.
Fence == <<Backtick, Backtick, Backtick>>
Newline == <<"\n">>
\* The delimiter ' - '.
Delimiter == <<" ","-"," ">>
\* item.count(' - ') > 2
SplitThreshold == 2
\* response_text[:300]
RawExcerptLen == 300

NoSummary == <<"N","o"," ","s","u","m","m","a","r","y"," ","a","v","a","i","l","a","b","l","e">>
UnableToParse == <<"U","n","a","b","l","e"," ","t","o"," ","p","a","r","s","e"," ","L","L","M"," ","r","e","s","p","o","n","s","e"," ","-"," ","J","S","O","N"," ","f","o","r","m","a","t"," ","e","r","r","o","r">>
TryAgain == <<"T","r","y"," ","a","n","a","l","y","z","i","n","g"," ","a","g","a","i","n"," ","o","r"," ","u","s","e"," ","a"," ","d","i","f","f","e","r","e","n","t"," ","m","o","d","e","l">>
RawResponsePrefix == <<"R","a","w"," ","r","e","s","p","o","n","s","e",":"," ">>
Ellipsis == <<".",".",".">>
CouldNotParse == <<"E","r","r","o","r",":"," ","C","o","u","l","d"," ","n","o","t"," ","p","a","r","s","e"," ","t","h","e"," ","L","L","M"," ","r","e","s","p","o","n","s","e"," ","i","n","t","o"," ","s","t","r","u","c","t","u","r","e","d"," ","f","o","r","m","a","t">>

\* Lines 58-66: strip, then drop the fence lines of a markdown code block.
strip_code_block(response_text) ==
    LET cleaned == py_strip(response_text) IN
    IF py_startswith(cleaned, Fence)
    THEN LET lines0 == py_split(cleaned, Newline)
             lines1 == IF py_startswith(lines0[1], Fence) THEN Tail(lines0) ELSE lines0
             lines2 == IF lines1 # <<>> /\ py_startswith(lines1[Len(lines1)], Fence)
                       THEN SubSeq(lines1, 1, Len(lines1) - 1)
                       ELSE lines1
         IN  py_join(Newline, lines2)
    ELSE cleaned

NoMatch == [found |-> FALSE, group |-> <<>>]

\* re.match would anchor the pattern at the start of the text.
re_match_braces(cleaned) ==
    LET closes == {j \in 2..Len(cleaned) : cleaned[j] = "}"} IN
    IF At(cleaned, 1) # "{" \/ closes = {} THEN NoMatch
    ELSE [found |-> TRUE, group |-> SubSeq(cleaned, 1, MaxOf(closes))]

\* re.search(r'\{[\s\S]*\}', cleaned): the leftmost '{' that has a '}' after
\* it, and greedily everything up to the last '}'.
re_search_braces(cleaned) ==
    LET opens == {i \in 1..Len(cleaned) : cleaned[i] = "{"} IN
    IF opens = {} THEN NoMatch
    ELSE LET i      == MinOf(opens)
             closes == {j \in (i + 1)..Len(cleaned) : cleaned[j] = "}"}
         IN  IF closes = {} THEN NoMatch
             ELSE [found |-> TRUE, group |-> SubSeq(cleaned, i, MaxOf(closes))]

\* Lines 75-78: a missing required key gets its default.
RECURSIVE ensure_required_keys(_, _)
ensure_required_keys(parsed, keys) ==
    IF keys = <<>> THEN parsed
    ELSE LET key == Head(keys)
             dflt == IF key # meeting_summary THEN JList(<<>>) ELSE JStr(NoSummary)
         IN  ensure_required_keys(
                 IF ~dict_has(parsed, key) THEN dict_set(parsed, key, dflt) ELSE parsed,
                 Tail(keys))

\* Line 88: [s.strip() for s in item.split(' - ') if s.strip()]
split_items(item) ==
    LET pieces == py_split(item, Delimiter) IN
    Flatten([i \in 1..Len(pieces) |->
                IF py_strip(pieces[i]) # <<>> THEN <<JStr(py_strip(pieces[i]))>> ELSE <<>>])

\* A threshold of one delimiter more.
clean_item_late(item) ==
    IF item.t = "str"
    THEN IF Occurrences(item.v, Delimiter) # {}
            /\ py_count(item.v, Delimiter) > SplitThreshold + 1
         THEN split_items(item.v)
         ELSE <<JStr(py_strip(item.v))>>
    ELSE <<JStr(py_str(item))>>

\* A threshold of one delimiter less.
clean_item_early(item) ==
    IF item.t = "str"
    THEN IF Occurrences(item.v, Delimiter) # {}
            /\ py_count(item.v, Delimiter) > SplitThreshold - 1
         THEN split_items(item.v)
         ELSE <<JStr(py_strip(item.v))>>
    ELSE <<JStr(py_str(item))>>

\* An unsplit item appended as it is, without strip().
clean_item_unstripped(item) ==
    IF item.t = "str"
    THEN IF Occurrences(item.v, Delimiter) # {}
            /\ py_count(item.v, Delimiter) > SplitThreshold
         THEN split_items(item.v)
         ELSE <<item>>
    ELSE <<JStr(py_str(item))>>

\* Lines 85-93: what one item of a list adds to cleaned_items.
clean_item(item) ==
    IF item.t = "str"
    THEN IF Occurrences(item.v, Delimiter) # {}
            /\ py_count(item.v, Delimiter) > SplitThreshold
         THEN split_items(item.v)
         ELSE <<JStr(py_strip(item.v))>>
    ELSE <<JStr(py_str(item))>>

\* `for item in x`: a list gives its elements, a str its characters, a dict
\* its keys; anything else is not iterable (TypeError).
py_iterable(x) == x.t \in {"list", "str", "obj"}

py_iter(x) ==
    CASE x.t = "list" -> x.v
      [] x.t = "str"  -> [i \in 1..Len(x.v) |-> JStr(<<x.v[i]>>)]
      [] x.t = "obj"  -> [i \in 1..Len(x.v) |-> JStr(x.v[i].k)]

Returned(value) == [raised |-> FALSE, exc |-> "", value |-> value]
Raised(exc)     == [raised |-> TRUE, exc |-> exc, value |-> JNull]

\* Lines 81-94: the post-processing loop over the three list keys.
RECURSIVE split_concatenated(_, _)
split_concatenated(parsed, keys) ==
    IF keys = <<>> THEN Returned(JObj(parsed))
    ELSE LET key == Head(keys) IN
         IF dict_has(parsed, key) /\ py_truthy(dict_get(parsed, key))
         THEN LET x == dict_get(parsed, key) IN
              IF ~py_iterable(x) THEN Raised("TypeError")
              ELSE LET items == py_iter(x)
                       cleaned_items ==
                           Flatten([i \in 1..Len(items) |-> clean_item(items[i])])
                   IN  split_concatenated(dict_set(parsed, key, JList(cleaned_items)),
                                          Tail(keys))
         ELSE split_concatenated(parsed, Tail(keys))

\* The excerpt without the [:300] slice.
raw_excerpt_whole(response_text) == response_text

\* Line 105: response_text[:300]
raw_excerpt(response_text) == Slice(response_text, 1, RawExcerptLen)

\* Lines 102-108.
fallback_record(response_text) ==
    JObj(<<Pair(key_decisions, JList(<<JStr(UnableToParse)>>)),
           Pair(action_items, JList(<<JStr(TryAgain)>>)),
           Pair(discussion_points,
                JList(<<JStr(RawResponsePrefix \o raw_excerpt(response_text) \o Ellipsis)>>)),
           Pair(participants, JList(<<>>)),
           Pair(meeting_summary, JStr(CouldNotParse))>>)

\* Lines 54-108.
extract_json_from_response(response_text) ==
    LET cleaned    == strip_code_block(response_text)
        json_match == re_search_braces(cleaned)
        loaded     == IF json_match.found THEN json_loads(json_match.group) ELSE ParseFail
    IN  IF json_match.found /\ loaded.ok
        THEN split_concatenated(ensure_required_keys(loaded.val.v, required_keys), list_keys)
        ELSE Returned(fallback_record(response_text))

(***************************************************************************)
(* What the LLM may reply (response['message']['content'])                 *)
(***************************************************************************)
\* The most delimiters in one generated list element.
MaxSeps == 3
\* The most elements in one generated list.
MaxItems == 2
\* The most chunks in one reply that is free text.
MaxChunks == 5
\* How far the long replies run past the excerpt length.
MaxOver == 2

Letters == <<"A", "B", "C", "D", "E", "F", "G", "H">>

\* "A - B - ...": n delimiters between n + 1 one-letter pieces.
ItemText(n) == py_join(Delimiter, [i \in 1..(n + 1) |-> <<Letters[i]>>])

Padded(s) == <<" ">> \o s \o <<" ", " ">>

SeqsUpTo(S, n) == UNION {[1..m -> S] : m \in 0..n}

StringItems ==
    {ItemText(n) : n \in 0..MaxSeps}
    \cup {Padded(ItemText(1)), Padded(ItemText(MaxSeps))}
    \cup {<<>>,
          <<"A"," ","-"," ","-"," ","-"," ","B">>,
          <<" ","-"," "," ","-"," ","A"," ","-"," ","B"," ","-"," ">>}

ListItems ==
    {JStr(s) : s \in StringItems}
    \cup {JNum(5), JNull, JList(<<JStr(ItemText(3)), JNum(0)>>)}

Lists == {JList(xs) : xs \in SeqsUpTo(ListItems, MaxItems)}

\* Values of a field that are no list.
Scalars ==
    {JNull, JNum(0), JNum(5), JNum(0 - 5), JBool(TRUE), JBool(FALSE),
     JStr(<<>>), JStr(<<"A", " ", "B">>), JObj(<<>>),
     JObj(<<Pair(ItemText(3), JNum(1)), Pair(<<"Z">>, JNull)>>)}

\* Objects that carry one of the required fields.
ShortLists == {JList(xs) : xs \in SeqsUpTo(ListItems, 1)}

OneFieldObjects ==
    {JObj(<<Pair(key_decisions, v)>>) : v \in Lists}
    \cup {JObj(<<Pair(list_keys[i], v)>>) : i \in 2..3, v \in ShortLists}
    \cup {JObj(<<Pair(required_keys[i], v)>>) : i \in 1..5, v \in Scalars}

\* Objects that carry two list fields, neither holding a list.
TwoFieldObjects ==
    {JObj(<<Pair(action_items, v), Pair(discussion_points, w)>>) :
        v \in Scalars, w \in {JNull, JNum(5), JStr(<<"A", " ", "B">>)}}

WellTypedItems == {JStr(<<"A">>), JStr(Padded(ItemText(1))), JStr(ItemText(MaxSeps))}
WellTypedLists == {JList(xs) : xs \in SeqsUpTo(WellTypedItems, MaxItems)}
WellTypedShort == {JList(xs) : xs \in SeqsUpTo(WellTypedItems, 1)}

\* Objects with the five fields, each of its type.
WellTypedObjects ==
    {JObj(<<Pair(meeting_summary, JStr(sm)), Pair(participants, JList(ps)),
            Pair(key_decisions, kd), Pair(action_items, ai),
            Pair(discussion_points, dp)>>) :
        sm \in {Padded(<<"S">>)},
        ps \in {<<>>, <<JStr(Padded(<<"P">>))>>},
        kd \in WellTypedLists, ai \in WellTypedShort, dp \in WellTypedShort}

\* json.dumps(x): the text of a value.
RECURSIVE json_dumps(_)
json_dumps(x) ==
    CASE x.t = "str"  -> <<"\"">> \o x.v \o <<"\"">>
      [] x.t = "num"  -> IntToChars(x.v)
      [] x.t = "bool" -> IF x.v THEN <<"t","r","u","e">> ELSE <<"f","a","l","s","e">>
      [] x.t = "null" -> <<"n","u","l","l">>
      [] x.t = "list" ->
            <<"[">> \o py_join(<<",", " ">>, [i \in 1..Len(x.v) |-> json_dumps(x.v[i])])
                    \o <<"]">>
      [] x.t = "obj"  ->
            <<"{">> \o py_join(<<",", " ">>,
                          [i \in 1..Len(x.v) |->
                              json_dumps(JStr(x.v[i].k)) \o <<":", " ">>
                                  \o json_dumps(x.v[i].v)])
                    \o <<"}">>

\* No object: the reply is free text.
NoObject == [t |-> "none", v |-> 0]

\* A reply: commentary, the body, commentary.  obj is the JSON object the body
\* is the text of, if it was written as one.
Reply(pre, obj, body, post) == [pre |-> pre, obj |-> obj, body |-> body, post |-> post]

ReplyText(r) == r.pre \o r.body \o r.post

ObjectReplies ==
    {Reply(<<>>, o, json_dumps(o), <<>>) :
        o \in OneFieldObjects \cup TwoFieldObjects \cup WellTypedObjects}

\* Commentary the model may put before and after an object.
Pres ==
    {<<>>,
     <<"H","e","r","e",":"," ">>,
     <<" ","\n">>,
     Fence \o <<"j","s","o","n","\n">>,
     Fence \o <<" ">>,
     <<"{","n","o","t","e","}"," ">>,
     <<"}"," ">>}

Posts ==
    {<<>>,
     <<" ","o","k">>,
     <<"\n">>,
     <<"\n">> \o Fence,
     <<" ","}">>,
     <<" ","{","x","}">>}

CommentedObjects ==
    {JObj(<<>>),
     JObj(<<Pair(key_decisions, JList(<<JStr(ItemText(MaxSeps)), JStr(Padded(<<"A">>))>>))>>),
     JObj(<<Pair(action_items, JNum(5))>>),
     JObj(<<Pair(meeting_summary, JStr(<<"S">>)), Pair(participants, JNull)>>)}

CommentedReplies ==
    {Reply(pre, o, json_dumps(o), post) :
        pre \in Pres, o \in CommentedObjects, post \in Posts}

Chunks == {Fence, <<"{">>, <<"}">>, <<"\n">>}

\* Prose without a brace.
PlainTexts ==
    {<<"n","o","t"," ","j","s","o","n"," ","a","t"," ","a","l","l">>,
     ItemText(3),
     <<" ", "\t">>}

FreeTextReplies ==
    {Reply(<<>>, NoObject, Flatten(cs), <<>>) : cs \in SeqsUpTo(Chunks, MaxChunks)}
    \cup {Reply(<<>>, NoObject, text, <<>>) : text \in PlainTexts}

\* Replies around the excerpt length: n times "x", then a tail.
LongReplies ==
    {Reply(<<>>, NoObject, [i \in 1..(RawExcerptLen - 1 + k) |-> "x"] \o tail, <<>>) :
        k \in 0..MaxOver, tail \in {<<>>, <<"{">>, <<"{", "}">>, <<"{", "x", "}">>}}

Replies == ObjectReplies \cup CommentedReplies \cup FreeTextReplies \cup LongReplies

(***************************************************************************)
(* analyze_meeting: POST /api/analyze                                      *)
(***************************************************************************)
OLLAMA_MODEL == "llama3.2"

transcript_key == <<"t","r","a","n","s","c","r","i","p","t">>

\* request.json: the body of the request.
RequestBodies ==
    {JObj(<<>>), JObj(<<Pair(transcript_key, JNull)>>)}
    \cup {JObj(<<Pair(transcript_key, JStr(tr))>>) :
            tr \in {<<>>, <<" ">>, <<" ", "\n", "\t">>, <<" ", "h", "i", "\n">>}}

\* What ollama.chat may raise.
ChatErrors ==
    {[type |-> "ConnectionError", msg |-> "connection refused"],
     [type |-> "ResponseError",   msg |-> "model not found"]}

VARIABLES
    pc,                \* where the handler is: idle, received, chat, done
    data,              \* request.json
    prompt,            \* the prompt built for the LLM
    llm_calls,         \* calls of ollama.chat made for this request
    normalizer_calls,  \* calls of extract_json_from_response for this request
    chat_outcome,      \* none, returned, raised
    llm_reply,         \* what the LLM wrote (pre, obj, body, post)
    response_text,     \* response['message']['content']
    analysis,          \* the outcome of extract_json_from_response
    response           \* the HTTP response: status and JSON body

vars == <<pc, data, prompt, llm_calls, normalizer_calls, chat_outcome, llm_reply,
          response_text, analysis, response>>

NoPrompt == <<>>
NoReply == Reply(<<>>, NoObject, <<>>, <<>>)
NoAnalysis == Raised("")
NoResponse == [status |-> 0, body |-> [error |-> <<>>]]

\* Lines 18-52: the transcript between the two halves of the template.
create_analysis_prompt(transcript) ==
    <<"You are a meeting analysis assistant. [...] Meeting Transcript:\n">>
        \o transcript \o <<"\nCRITICAL: Return ONLY valid JSON. [...]">>

\* data.get('transcript', '')
get_transcript(d) ==
    IF dict_has(d.v, transcript_key) THEN dict_get(d.v, transcript_key) ELSE JStr(<<>>)

\* The test without strip().
is_empty_transcript_unstripped(transcript) == transcript = <<>>

\* Line 163: not transcript.strip()
is_empty_transcript(transcript) == py_strip(transcript) = <<>>

\* Line 164.
empty_transcript_response ==
    [status |-> 400, body |-> [error |-> <<"Empty transcript">>]]

\* Lines 189-194.
success_response(result, text) ==
    [status |-> 200,
     body |-> [success |-> TRUE, analysis |-> result, model_used |-> OLLAMA_MODEL,
               raw_response |-> text]]

\* The handler without its status: Flask then answers 200.
connection_error_response_200(e) ==
    [status |-> 200,
     body |-> [error |-> <<"Cannot connect to Ollama">>,
               suggestion |-> "Make sure Ollama is running: ollama serve",
               details |-> e.msg]]

\* Lines 196-201.
connection_error_response(e) ==
    [status |-> 500,
     body |-> [error |-> <<"Cannot connect to Ollama">>,
               suggestion |-> "Make sure Ollama is running: ollama serve",
               details |-> e.msg]]

\* Lines 202-206: error is f'Error: {str(e)}'.
exception_response(e) ==
    [status |-> 500,
     body |-> [error |-> <<"Error: ", e.msg>>,
               suggestion |-> <<"Make sure model is available: ollama pull ", OLLAMA_MODEL>>]]

\* The except clauses of lines 196-206.
handle_exception(e) ==
    IF e.type = "ConnectionError" THEN connection_error_response(e)
    ELSE exception_response(e)

Init ==
    /\ pc = "idle"
    /\ data = JObj(<<>>)
    /\ prompt = NoPrompt
    /\ llm_calls = 0
    /\ normalizer_calls = 0
    /\ chat_outcome = "none"
    /\ llm_reply = NoReply
    /\ response_text = <<>>
    /\ analysis = NoAnalysis
    /\ response = NoResponse

\* A request arrives; what the handler keeps is per request.
Receive(d) ==
    /\ pc \in {"idle", "done"}
    /\ pc' = "received"
    /\ data' = d
    /\ prompt' = NoPrompt
    /\ llm_calls' = 0
    /\ normalizer_calls' = 0
    /\ chat_outcome' = "none"
    /\ llm_reply' = NoReply
    /\ response_text' = <<>>
    /\ analysis' = NoAnalysis
    /\ response' = NoResponse

\* Lines 159-181: up to the call of ollama.chat.
AnalyzeBegin ==
    /\ pc = "received"
    /\ LET transcript == get_transcript(data) IN
       IF transcript.t # "str"
       THEN \* transcript.strip() raises AttributeError
            /\ response' = handle_exception(
                   [type |-> "AttributeError", msg |-> "object has no attribute 'strip'"])
            /\ pc' = "done"
            /\ UNCHANGED <<prompt, llm_calls>>
       ELSE IF is_empty_transcript(transcript.v)
       THEN /\ response' = empty_transcript_response
            /\ pc' = "done"
            /\ UNCHANGED <<prompt, llm_calls>>
       ELSE /\ prompt' = create_analysis_prompt(transcript.v)
            /\ llm_calls' = llm_calls + 1
            /\ pc' = "chat"
            /\ UNCHANGED response
    /\ UNCHANGED <<data, normalizer_calls, chat_outcome, llm_reply, response_text, analysis>>

\* Lines 183-194, and 202-206 when the normalizer raises: ollama.chat returns.
ChatReturns(r) ==
    /\ pc = "chat"
    /\ chat_outcome' = "returned"
    /\ llm_reply' = r
    /\ response_text' = ReplyText(r)
    /\ normalizer_calls' = normalizer_calls + 1
    /\ analysis' = extract_json_from_response(ReplyText(r))
    /\ response' = IF analysis'.raised
                   THEN handle_exception([type |-> analysis'.exc,
                                          msg |-> "object is not iterable"])
                   ELSE success_response(analysis'.value, ReplyText(r))
    /\ pc' = "done"
    /\ UNCHANGED <<data, prompt, llm_calls>>

\* Lines 196-206: ollama.chat raises.
ChatRaises(e) ==
    /\ pc = "chat"
    /\ chat_outcome' = "raised"
    /\ response' = handle_exception(e)
    /\ pc' = "done"
    /\ UNCHANGED <<data, prompt, llm_calls, normalizer_calls, llm_reply, response_text,
                   analysis>>

Next ==
    \/ \E d \in RequestBodies : Receive(d)
    \/ AnalyzeBegin
    \/ \E r \in Replies : ChatReturns(r)
    \/ \E e \in ChatErrors : ChatRaises(e)

Spec == Init /\ [][Next]_vars

(***************************************************************************)
(* Properties                                                              *)
(***************************************************************************)
\* The handler has answered a request whose LLM call returned a reply.
Normalized == pc = "done" /\ chat_outcome = "returned"

\* The pairs of the record the normalizer returned.
Result == analysis.value.v

\* Two dicts hold the same keys with the same values, in whatever order.
SameFields(kvs1, kvs2) ==
    {kvs1[i] : i \in 1..Len(kvs1)} = {kvs2[i] : i \in 1..Len(kvs2)}

IsBlank(s) == \A i \in 1..Len(s) : s[i] \in PyWhitespace

BraceFree(s) == \A i \in 1..Len(s) : s[i] \notin {"{", "}"}

\* The brace span of a text: from its first '{' to its last '}'.
HasBraceSpan(text) ==
    LET opens  == {i \in 1..Len(text) : text[i] = "{"}
        closes == {j \in 1..Len(text) : text[j] = "}"}
    IN  opens # {} /\ closes # {} /\ MinOf(opens) < MaxOf(closes)

BraceSpan(text) ==
    SubSeq(text, MinOf({i \in 1..Len(text) : text[i] = "{"}),
                 MaxOf({j \in 1..Len(text) : text[j] = "}"}))

SpanParses(text) == HasBraceSpan(text) /\ json_loads(BraceSpan(text)).ok

\* The object the normalizer parsed, when it took the parse path.
OnParsePath == SpanParses(strip_code_block(response_text))
ParsedInput == json_loads(BraceSpan(strip_code_block(response_text))).val.v

\* The fallback record as the specification spells it.
ExpectedFallback(text) ==
    <<Pair(key_decisions, JList(<<JStr(UnableToParse)>>)),
      Pair(action_items, JList(<<JStr(TryAgain)>>)),
      Pair(participants, JList(<<>>)),
      Pair(meeting_summary, JStr(CouldNotParse)),
      Pair(discussion_points,
           JList(<<JStr(RawResponsePrefix \o Slice(text, 1, 300) \o Ellipsis)>>))>>

\* The trimmed non-empty pieces of s, in the order they occur in s.
TrimmedPieces(s) ==
    LET pieces  == py_split(s, Delimiter)
        trimmed == [i \in 1..Len(pieces) |-> JStr(py_strip(pieces[i]))]
    IN  SelectSeq(trimmed, LAMBDA p : p.v # <<>>)

\* What a string element becomes: its pieces if it holds the delimiter more
\* than twice, else itself, trimmed.
ClaimedItems(s) ==
    IF py_count(s, Delimiter) > 2 THEN TrimmedPieces(s) ELSE <<JStr(py_strip(s))>>

\* The places an element takes in the output: a string element those of its
\* claimed items, any other element one.
BlockLen(e) == IF e.t = "str" THEN Len(ClaimedItems(e.v)) ELSE 1

\* The number of output places before those of xs[i].
RECURSIVE Offset(_, _)
Offset(xs, i) == IF i <= 1 THEN 0 ELSE Offset(xs, i - 1) + BlockLen(xs[i - 1])

\* The output elements at the places of xs[i].
Block(out, xs, i) == Slice(out, Offset(xs, i) + 1, Offset(xs, i) + BlockLen(xs[i]))

\* The list fields of the parsed input that hold a non-empty list.
ListFields ==
    {i \in 1..3 : /\ dict_has(ParsedInput, list_keys[i])
                  /\ dict_get(ParsedInput, list_keys[i]).t = "list"
                  /\ dict_get(ParsedInput, list_keys[i]).v # <<>>}

\* C1: the normalizer never fails: whatever the reply text, no error escapes.
C1_NeverFails == Normalized => ~analysis.raised

\* C2: the returned record holds the five required fields, none of them null.
C2_FieldsPresentNonNull ==
    (Normalized /\ ~analysis.raised) =>
        \A i \in 1..5 :
            /\ dict_has(Result, required_keys[i])
            /\ dict_get(Result, required_keys[i]).t # "null"

\* C3: when the LLM call returned a reply text the response is HTTP 200 with
\* success:true and an analysis, whatever the text.
C3_ReplyGives200 ==
    Normalized => response.status = 200 /\ response.body.success

\* C4: a request whose transcript is empty or whitespace is answered 400
\* "Empty transcript", and at no point of its handling is a prompt built or
\* the LLM invoked.
C4_EmptyTranscriptRejected ==
    LET transcript == get_transcript(data) IN
    (pc # "idle" /\ transcript.t = "str" /\ IsBlank(transcript.v)) =>
        /\ llm_calls = 0
        /\ prompt = NoPrompt
        /\ chat_outcome = "none"
        /\ normalizer_calls = 0
        /\ (pc = "done" =>
              response = [status |-> 400, body |-> [error |-> <<"Empty transcript">>]])

C4_Witness ==
    /\ pc = "done"
    /\ get_transcript(data) = JStr(<<" ", "\n", "\t">>)
    /\ response.status = 400

\* C5: when the LLM call fails the response is HTTP 500 with an error text,
\* the LLM was invoked exactly once and the normalizer not at all.
C5_ChatFailureGives500 ==
    (pc = "done" /\ chat_outcome = "raised") =>
        /\ response.status = 500
        /\ response.body.error # <<>>
        /\ llm_calls = 1
        /\ normalizer_calls = 0

C5_Witness ==
    /\ pc = "done"
    /\ chat_outcome = "raised"
    /\ response.body.error = <<"Cannot connect to Ollama">>
    /\ llm_calls = 1

\* C6, as stated: whenever the raw text has no brace span, or its brace span
\* is not valid JSON, the normalizer returns exactly the fallback record.
C6_FallbackByRawText ==
    (Normalized /\ ~SpanParses(response_text)) =>
        /\ ~analysis.raised
        /\ SameFields(Result, ExpectedFallback(response_text))

\* C6, amended: whenever the text left after strip() and the removal of the
\* code block's fence lines has no brace span, or its brace span is not valid
\* JSON, the normalizer returns exactly the fallback record, its excerpt the
\* first 300 characters of the raw text.
C6_FallbackByCleanedText ==
    (Normalized /\ ~OnParsePath) =>
        /\ ~analysis.raised
        /\ SameFields(Result, ExpectedFallback(response_text))

C6_Witness ==
    /\ Normalized
    /\ ~OnParsePath
    /\ HasBraceSpan(response_text)
    /\ Len(response_text) > 300
    /\ ~analysis.raised
    /\ Len(dict_get(Result, discussion_points).v[1].v) = 14 + 300 + 3

\* C7, as stated: commentary, a well-formed object, commentary gives the same
\* record as the bare object, whatever the commentary.
C7_CommentaryIgnored ==
    (Normalized /\ llm_reply.obj # NoObject) =>
        analysis = extract_json_from_response(llm_reply.body)

\* C7, amended: commentary without '{' or '}', a well-formed object,
\* commentary without '{' or '}', in a text that does not start (after
\* strip()) with the code block marker, gives the same outcome as the bare
\* object.
C7_BraceFreeCommentaryIgnored ==
    (/\ Normalized
     /\ llm_reply.obj # NoObject
     /\ BraceFree(llm_reply.pre)
     /\ BraceFree(llm_reply.post)
     /\ ~py_startswith(py_strip(response_text), Fence)) =>
        analysis = extract_json_from_response(llm_reply.body)

C7_Witness ==
    /\ Normalized
    /\ llm_reply.pre = <<"H","e","r","e",":"," ">>
    /\ llm_reply.post = <<" ","o","k">>
    /\ llm_reply.obj # NoObject
    /\ ~analysis.raised
    /\ dict_get(Result, key_decisions) =
           JList(<<JStr(<<"A">>), JStr(<<"B">>), JStr(<<"C">>), JStr(<<"D">>),
                   JStr(<<"A">>)>>)

\* C8: on the parse path a string element with more than two delimiters is
\* replaced at its place by its trimmed non-empty pieces in order, one with
\* at most two stays one trimmed element, and the other elements keep their
\* order.
C8_SplitInPlace ==
    (Normalized /\ OnParsePath /\ ~analysis.raised) =>
        \A f \in ListFields :
            LET xs  == dict_get(ParsedInput, list_keys[f]).v
                out == dict_get(Result, list_keys[f])
            IN  /\ out.t = "list"
                /\ Len(out.v) = Offset(xs, Len(xs) + 1)
                /\ \A i \in 1..Len(xs) :
                      xs[i].t = "str" => Block(out.v, xs, i) = ClaimedItems(xs[i].v)

C8_Witness ==
    /\ Normalized
    /\ llm_reply.obj = JObj(<<Pair(key_decisions,
                                   JList(<<JStr(ItemText(2)), JStr(ItemText(3))>>))>>)
    /\ ~analysis.raised
    /\ dict_get(Result, key_decisions) =
           JList(<<JStr(ItemText(2)), JStr(<<"A">>), JStr(<<"B">>), JStr(<<"C">>),
                   JStr(<<"D">>)>>)

WellFormed(o) ==
    /\ o.t = "obj"
    /\ \A i \in 1..5 : dict_has(o.v, required_keys[i])
    /\ dict_get(o.v, meeting_summary).t = "str"
    /\ \A i \in 2..5 :
          LET x == dict_get(o.v, required_keys[i]) IN
          /\ x.t = "list"
          /\ \A j \in 1..Len(x.v) :
                x.v[j].t = "str" /\ py_count(x.v[j].v, Delimiter) <= 2

\* o with every element of its three list fields trimmed.
WithTrimmedItems(o) ==
    [i \in 1..Len(o.v) |->
        IF \E f \in 1..3 : o.v[i].k = list_keys[f]
        THEN Pair(o.v[i].k,
                  JList([j \in 1..Len(o.v[i].v.v) |-> JStr(py_strip(o.v[i].v.v[j].v))]))
        ELSE o.v[i]]

\* C10, as stated: a well-formed object comes back equal to the parsed input,
\* every field and every list element unchanged.
C10_RoundTrip ==
    (/\ Normalized
     /\ llm_reply.pre = <<>>
     /\ llm_reply.post = <<>>
     /\ WellFormed(llm_reply.obj)) =>
        /\ ~analysis.raised
        /\ SameFields(Result, llm_reply.obj.v)

\* C10, amended: a well-formed object comes back with meeting_summary and
\* participants unchanged and with every element of key_decisions,
\* action_items and discussion_points stripped of its leading and trailing
\* whitespace, and otherwise unchanged.
C10_RoundTripTrimmed ==
    (/\ Normalized
     /\ llm_reply.pre = <<>>
     /\ llm_reply.post = <<>>
     /\ WellFormed(llm_reply.obj)) =>
        /\ ~analysis.raised
        /\ SameFields(Result, WithTrimmedItems(llm_reply.obj))

C10_Witness ==
    /\ Normalized
    /\ llm_reply.pre = <<>>
    /\ llm_reply.post = <<>>
    /\ WellFormed(llm_reply.obj)
    /\ dict_get(llm_reply.obj.v, key_decisions) =
           JList(<<JStr(<<"A">>), JStr(Padded(ItemText(1)))>>)
    /\ dict_get(Result, key_decisions) = JList(<<JStr(<<"A">>), JStr(ItemText(1))>>)
    /\ dict_get(Result, participants) = JList(<<JStr(Padded(<<"P">>))>>)

=============================================================================
